---- MODULE Spec2Model ----
(***************************************************************************)
(* The game-state reducer of src/src/game.rs: GameState (squares, players, *)
(* events), GameState::init, GameState::ensure_player and GameState::apply,*)
(* driven the way src/src/main.rs and the unit tests of game.rs drive it.  *)
(***************************************************************************)
EXTENDS Integers, Sequences, FiniteSets, TLC

\* ------------------------------------------------------------------ bounds
\* Longest player list the callers build (tests push onto state.players).
MaxPlayers == 1
\* Longest event log explored; a call that would leave a longer one is not made.
MaxEvents == 2

\* ------------------------------------------------------- machine integers
\* PlayerId(pub i8), RollResult(pub i8, pub i8): 8-bit two's complement.
I8Bits == 8
I8Min == -(2 ^ (I8Bits - 1))
I8Max == (2 ^ (I8Bits - 1)) - 1
InI8(x) == I8Min <= x /\ x <= I8Max
\* The value a wrapping i8 operation leaves for the mathematical result x.
WrapI8(x) == ((x - I8Min) % (2 ^ I8Bits)) + I8Min

\* ------------------------------------------------------------------ text
\* A String is modelled as the sequence of its characters.
Digits == <<"0", "1", "2", "3", "4", "5", "6", "7", "8", "9">>

RECURSIVE FmtNat(_)
FmtNat(n) ==
    IF n < 10 THEN <<Digits[n + 1]>>
    ELSE FmtNat(n \div 10) \o <<Digits[(n % 10) + 1]>>

\* format!("{:?}", x) for x: i8 - the decimal digits, "-" first when negative.
FmtI8(x) == IF x < 0 THEN <<"-">> \o FmtNat(-x) ELSE FmtNat(x)

\* "player "
StrPlayer == <<"p", "l", "a", "y", "e", "r", " ">>
\* " is not a valid player"
StrNotValid ==
    <<" ", "i", "s", " ", "n", "o", "t", " ", "a", " ",
      "v", "a", "l", "i", "d", " ", "p", "l", "a", "y", "e", "r">>
\* " rolled "
StrRolled == <<" ", "r", "o", "l", "l", "e", "d", " ">>
\* "foo"
StrFoo == <<"f", "o", "o">>

\* ------------------------------------------------------------ data model
PlayerId(id) == id
Player(id) == [id |-> PlayerId(id)]
PropertyId(n) == n
Money(n) == n
RollResult(one, two) == <<one, two>>

\* The placeholder cards.
Card == {"Chance", "CommunityChest"}
Bid(p, m) == <<PlayerId(p), Money(m)>>

\* The static board table.
SQUARES ==
    << [square |-> "Go"],
       [square     |-> "Property",
        name       |-> "Mediterranean Ave",
        base       |-> Money(2),
        houses     |-> <<Money(10), Money(30), Money(90), Money(160)>>,
        hotel      |-> Money(250),
        mortgage   |-> Money(30),
        house_cost |-> Money(50),
        hotel_cost |-> <<Money(50), 4>>] >>

\* StateError { message }
StateError(message) == [message |-> message]

\* Result<(), StateError>, and the third way a call can end: a panic.
Ok == [tag |-> "Ok"]
Err(e) == [tag |-> "Err", error |-> e]
Panic == [tag |-> "Panic"]

\* ------------------------------------------------------------- the actions
\* enum Action: 18 variants, each a record tagged with its variant.
RollDice(p, roll) == [variant |-> "RollDice", player |-> PlayerId(p), roll |-> roll]
MoveForward(p, n) == [variant |-> "MoveForward", player |-> PlayerId(p), spaces |-> n]
\* BuyProperty, SellProperty, BuyHouse, SellHouse, BuyHotel, SellHotel,
\* MortgageProperty, UnmortgageProperty: (PlayerId, PropertyId).
PropertyVariants ==
    {"BuyProperty", "SellProperty", "BuyHouse", "SellHouse", "BuyHotel",
     "SellHotel", "MortgageProperty", "UnmortgageProperty"}
PropertyAction(v, p, prop) ==
    [variant |-> v, player |-> PlayerId(p), property |-> PropertyId(prop)]
PayTaxes(p, m) == [variant |-> "PayTaxes", player |-> PlayerId(p), amount |-> Money(m)]
\* ReceiveSalary, GoToJail, PayJailFine, DeclareBankruptcy: (PlayerId).
PlayerVariants == {"ReceiveSalary", "GoToJail", "PayJailFine", "DeclareBankruptcy"}
PlayerAction(v, p) == [variant |-> v, player |-> PlayerId(p)]
DrawCard(p, c) == [variant |-> "DrawCard", player |-> PlayerId(p), card |-> c]
AuctionProperty(prop, bids) ==
    [variant |-> "AuctionProperty", property |-> PropertyId(prop), bids |-> bids]
\* TransactionType::PayRent(PlayerId) inside Transaction { ty, cost }.
PayRent(p) == [variant |-> "PayRent", player |-> PlayerId(p)]
Transaction(ty, cost) == [ty |-> ty, cost |-> Money(cost)]
TransactWithPlayer(p, t) ==
    [variant |-> "TransactWithPlayer", player |-> PlayerId(p), transaction |-> t]

\* --------------------------------------------------- GameState operations
\* init that seeds the player list with a first player.
init_onePlayer == [squares |-> SQUARES, players |-> <<Player(0)>>, events |-> <<>>]

\* GameState::init()
init == [squares |-> SQUARES, players |-> <<>>, events |-> <<>>]

\* self.players.len().try_into().unwrap(): usize -> i8, a panic when the
\* length does not fit.
LenAsI8(n) == IF InI8(n) THEN [tag |-> "Ok", value |-> n] ELSE Panic

\* ensure_player with the comparison off by one: `>` for `>=`.
ensure_player_gt(self, player_id) ==
    LET len == LenAsI8(Len(self.players))
    IN  IF len = Panic THEN Panic
        ELSE IF player_id > len.value
             THEN Err(StateError(StrPlayer \o FmtI8(player_id) \o StrNotValid))
             ELSE Ok

\* GameState::ensure_player(&self, player_id: i8)
ensure_player(self, player_id) ==
    LET len == LenAsI8(Len(self.players))
    IN  IF len = Panic THEN Panic
        ELSE IF player_id >= len.value
             THEN Err(StateError(StrPlayer \o FmtI8(player_id) \o StrNotValid))
             ELSE Ok

\* `one + two` on i8: a panic ("attempt to add with overflow") when the build
\* checks overflow, the wrapped sum otherwise.
AddI8(one, two, checks) ==
    IF InI8(one + two) THEN [tag |-> "Ok", value |-> one + two]
    ELSE IF checks THEN Panic
    ELSE [tag |-> "Ok", value |-> WrapI8(one + two)]

\* What the RollDice arm leaves once the player is ensured and the sum is
\* taken, with `logged` as the event log it writes.
RollDiceArm(self, action, checks, logged) ==
    LET sum == AddI8(action.roll[1], action.roll[2], checks)
    IN  IF sum = Panic
        THEN [self |-> self, result |-> Panic, out |-> <<>>]
        ELSE [self   |-> [self EXCEPT !.events = logged],
              result |-> Ok,
              out    |-> <<StrPlayer \o FmtI8(action.player) \o StrRolled
                           \o FmtI8(sum.value)>>]

\* apply that returns Ok for a roll without pushing it onto the log.
apply_noPush(self, action, checks) ==
    IF action.variant = "RollDice"
    THEN LET ensured == ensure_player(self, action.player)
         IN  IF ensured # Ok
             THEN [self |-> self, result |-> ensured, out |-> <<>>]
             ELSE RollDiceArm(self, action, checks, self.events)
    ELSE [self |-> self, result |-> Err(StateError(StrFoo)), out |-> <<>>]

\* apply that pushes the action before it ensures the player.
apply_pushFirst(self, action, checks) ==
    IF action.variant = "RollDice"
    THEN LET pushed == [self EXCEPT !.events = Append(@, action)]
             ensured == ensure_player(self, action.player)
         IN  IF ensured # Ok
             THEN [self |-> pushed, result |-> ensured, out |-> <<>>]
             ELSE RollDiceArm(self, action, checks, pushed.events)
    ELSE [self |-> self, result |-> Err(StateError(StrFoo)), out |-> <<>>]

\* apply that inserts the action at the front of the log.
apply_pushFront(self, action, checks) ==
    IF action.variant = "RollDice"
    THEN LET ensured == ensure_player(self, action.player)
         IN  IF ensured # Ok
             THEN [self |-> self, result |-> ensured, out |-> <<>>]
             ELSE RollDiceArm(self, action, checks, <<action>> \o self.events)
    ELSE [self |-> self, result |-> Err(StateError(StrFoo)), out |-> <<>>]

\* apply with a second arm: ReceiveSalary for a known player is logged.
apply_logsSalary(self, action, checks) ==
    IF action.variant = "RollDice"
    THEN LET ensured == ensure_player(self, action.player)
         IN  IF ensured # Ok
             THEN [self |-> self, result |-> ensured, out |-> <<>>]
             ELSE RollDiceArm(self, action, checks, Append(self.events, action))
    ELSE IF action.variant = "ReceiveSalary"
              /\ ensure_player(self, action.player) = Ok
    THEN [self   |-> [self EXCEPT !.events = Append(@, action)],
          result |-> Ok, out |-> <<>>]
    ELSE [self |-> self, result |-> Err(StateError(StrFoo)), out |-> <<>>]

\* apply whose roll also rewrites the rolling player's entry (the entry takes
\* the sum as its id).
apply_marksPlayer(self, action, checks) ==
    IF action.variant = "RollDice"
    THEN LET ensured == ensure_player(self, action.player)
             r == RollDiceArm(self, action, checks, Append(self.events, action))
             at == action.player + 1
         IN  IF ensured # Ok
             THEN [self |-> self, result |-> ensured, out |-> <<>>]
             ELSE IF r.result = Ok /\ at \in 1..Len(self.players)
             THEN [r EXCEPT !.self.players[at] =
                       Player(action.roll[1] + action.roll[2])]
             ELSE r
    ELSE [self |-> self, result |-> Err(StateError(StrFoo)), out |-> <<>>]

\* apply whose roll also pops the last square off the board.
apply_popsSquare(self, action, checks) ==
    IF action.variant = "RollDice"
    THEN LET ensured == ensure_player(self, action.player)
             r == RollDiceArm(self, action, checks, Append(self.events, action))
         IN  IF ensured # Ok
             THEN [self |-> self, result |-> ensured, out |-> <<>>]
             ELSE IF r.result = Ok /\ Len(self.squares) > 0
             THEN [r EXCEPT !.self.squares =
                       SubSeq(self.squares, 1, Len(self.squares) - 1)]
             ELSE r
    ELSE [self |-> self, result |-> Err(StateError(StrFoo)), out |-> <<>>]

\* GameState::apply(&mut self, action) in a build with overflow checks on or
\* off: the state it leaves, the value it returns, the lines it prints.
apply(self, action, checks) ==
    IF action.variant = "RollDice"
    THEN LET id == action.player
             one == action.roll[1]
             two == action.roll[2]
             ensured == ensure_player(self, id)
             sum == AddI8(one, two, checks)
         IN  IF ensured # Ok
             THEN [self |-> self, result |-> ensured, out |-> <<>>]
             ELSE IF sum = Panic
             THEN [self |-> self, result |-> Panic, out |-> <<>>]
             ELSE [self   |-> [self EXCEPT !.events = Append(@, action)],
                   result |-> Ok,
                   out    |-> <<StrPlayer \o FmtI8(id) \o StrRolled \o FmtI8(sum.value)>>]
    ELSE [self |-> self, result |-> Err(StateError(StrFoo)), out |-> <<>>]

\* ------------------------------------------------------------ the inputs
\* PlayerIds the callers submit: a negative one, the first two positions,
\* and the largest i8.
PlayerIdInputs == {-1, 0, 1, I8Max}
\* Rolls the callers submit: the tests' roll and the two i8 overflows.
RollInputs == {RollResult(1, 2), RollResult(I8Max, 1), RollResult(I8Min, -1)}
\* Ids the callers give the Player entries they register.
RegisterIds == {0, 1}
\* PlayerIds the callers put in the actions other than RollDice.
StubPlayerIds == {0, 1}
PropertyIdInputs == {PropertyId(1)}
MoneyInputs == {Money(50)}
SpacesInputs == {3}
BidsInputs == {<<>>} \cup {<<Bid(p, m)>> : p \in StubPlayerIds, m \in MoneyInputs}
TransactionInputs == {Transaction(PayRent(0), m) : m \in MoneyInputs}

RollDiceInputs == {RollDice(p, r) : p \in PlayerIdInputs, r \in RollInputs}
StubInputs ==
    {MoveForward(p, n) : p \in StubPlayerIds, n \in SpacesInputs}
    \cup {PropertyAction(v, p, prop) :
            v \in PropertyVariants, p \in StubPlayerIds, prop \in PropertyIdInputs}
    \cup {PayTaxes(p, m) : p \in StubPlayerIds, m \in MoneyInputs}
    \cup {PlayerAction(v, p) : v \in PlayerVariants, p \in StubPlayerIds}
    \cup {DrawCard(p, c) : p \in StubPlayerIds, c \in Card}
    \cup {AuctionProperty(prop, bids) : prop \in PropertyIdInputs, bids \in BidsInputs}
    \cup {TransactWithPlayer(p, t) : p \in StubPlayerIds, t \in TransactionInputs}
ActionInputs == RollDiceInputs \cup StubInputs

\* ------------------------------------------------------------- the state
VARIABLES
    squares,          \* GameState.squares
    players,          \* GameState.players
    events,           \* GameState.events
    overflow_checks,  \* whether the build panics on integer overflow
    stdout,           \* the lines println! has written
    call,             \* the caller's last apply: action, state before, result
    accepted,         \* the caller's record of the actions apply returned Ok for
    frame             \* the apply call in progress: its position and locals

vars == <<squares, players, events, overflow_checks, stdout, call, accepted, frame>>

\* The GameState the variables hold.
state == [squares |-> squares, players |-> players, events |-> events]

NoCall == [made |-> FALSE]
\* No apply call is in progress.
NoFrame == [pc |-> "none"]
Panicked == call.made /\ call.result = Panic

\* let mut state = GameState::init(); nothing applied yet.
Init ==
    /\ squares = init.squares
    /\ players = init.players
    /\ events = init.events
    /\ overflow_checks \in BOOLEAN
    /\ stdout = <<>>
    /\ call = NoCall
    /\ accepted = <<>>
    /\ frame = NoFrame

\* state.players.push(Player { id })
Register(id) ==
    /\ frame = NoFrame
    /\ ~Panicked
    /\ Len(players) < MaxPlayers
    /\ players' = Append(players, Player(id))
    /\ call' = NoCall
    /\ UNCHANGED <<squares, events, overflow_checks, stdout, accepted, frame>>

\* let result = state.apply(action);
Apply(action) ==
    /\ ~Panicked
    /\ LET r == apply(state, action, overflow_checks)
       IN  /\ Len(r.self.events) <= MaxEvents
           /\ squares' = r.self.squares
           /\ players' = r.self.players
           /\ events' = r.self.events
           /\ stdout' = stdout \o r.out
           /\ call' = [made |-> TRUE, action |-> action, before |-> state,
                       result |-> r.result]
           /\ accepted' = IF r.result = Ok THEN Append(accepted, action) ELSE accepted
    /\ UNCHANGED <<overflow_checks, frame>>

ApplyRollDice == \E a \in RollDiceInputs : Apply(a)
ApplyStub == \E a \in StubInputs : Apply(a)
RegisterPlayer == \E id \in RegisterIds : Register(id)

Next == RegisterPlayer \/ ApplyRollDice \/ ApplyStub

Spec == Init /\ [][Next]_vars

\* The program seen through its public interface, as main uses it: init,
\* then apply only; nothing registers a player.
ApplyOnly == ApplyRollDice \/ ApplyStub

SpecApplyOnly == Init /\ [][ApplyOnly]_vars

\* A caller that has filled the player list to the last length an i8 holds
\* (I8Max pushes, ids 0 .. I8Max - 1) and may go on pushing.
FullPlayers == [i \in 1..I8Max |-> Player(i - 1)]

InitFull ==
    /\ squares = init.squares
    /\ players = FullPlayers
    /\ events = init.events
    /\ overflow_checks \in BOOLEAN
    /\ stdout = <<>>
    /\ call = NoCall
    /\ accepted = <<>>
    /\ frame = NoFrame

\* state.players.push(Player { id }) on the full list.
RegisterBeyond(id) ==
    /\ frame = NoFrame
    /\ ~Panicked
    /\ Len(players) < I8Max + MaxPlayers
    /\ players' = Append(players, Player(id))
    /\ call' = NoCall
    /\ UNCHANGED <<squares, events, overflow_checks, stdout, accepted, frame>>

RegisterOneMore == \E id \in RegisterIds : RegisterBeyond(id)

NextFull == RegisterOneMore \/ ApplyRollDice \/ ApplyStub

SpecFull == InitFull /\ [][NextFull]_vars

\* ------------------------------------------- apply, statement by statement
\* The same program with apply taken one statement at a time; frame.pc is
\* the statement the call is about to run.
Return(result) ==
    /\ call' = [made |-> TRUE, action |-> frame.action, before |-> frame.before,
                result |-> result]
    /\ accepted' = IF result = Ok THEN Append(accepted, frame.action) ELSE accepted
    /\ frame' = NoFrame

\* state.apply(action): the call is entered, nothing has run yet.
Enter(action) ==
    /\ frame = NoFrame
    /\ ~Panicked
    /\ Len(events) < MaxEvents
    /\ frame' = [pc |-> "match", action |-> action, before |-> state,
                 ensured |-> [tag |-> "Pending"]]
    /\ call' = NoCall
    /\ UNCHANGED <<squares, players, events, overflow_checks, stdout, accepted>>

\* The match with the push hoisted above the player check.
StepMatch_pushFirst ==
    /\ frame.pc = "match"
    /\ IF frame.action.variant = "RollDice"
       THEN /\ frame' = [frame EXCEPT !.pc = "ensure_player"]
            /\ events' = Append(events, frame.action)
            /\ UNCHANGED <<call, accepted>>
       ELSE /\ Return(Err(StateError(StrFoo)))
            /\ UNCHANGED events
    /\ UNCHANGED <<squares, players, overflow_checks, stdout>>

\* match action { Action::RollDice(..) => .., _ => Err(StateError::new("foo")) }
StepMatch ==
    /\ frame.pc = "match"
    /\ IF frame.action.variant = "RollDice"
       THEN /\ frame' = [frame EXCEPT !.pc = "ensure_player"]
            /\ UNCHANGED <<call, accepted>>
       ELSE Return(Err(StateError(StrFoo)))
    /\ UNCHANGED <<squares, players, events, overflow_checks, stdout>>

\* self.ensure_player(id)?;
StepEnsure ==
    /\ frame.pc = "ensure_player"
    /\ LET ensured == ensure_player(state, frame.action.player)
       IN  IF ensured = Ok
           THEN /\ frame' = [frame EXCEPT !.pc = "println", !.ensured = ensured]
                /\ UNCHANGED <<call, accepted>>
           ELSE Return(ensured)
    /\ UNCHANGED <<squares, players, events, overflow_checks, stdout>>

\* println!("player {:?} rolled {:?}", id, one + two);
StepPrintln ==
    /\ frame.pc = "println"
    /\ LET sum == AddI8(frame.action.roll[1], frame.action.roll[2], overflow_checks)
       IN  IF sum = Panic
           THEN /\ Return(Panic)
                /\ UNCHANGED stdout
           ELSE /\ stdout' = Append(stdout, StrPlayer \o FmtI8(frame.action.player)
                                            \o StrRolled \o FmtI8(sum.value))
                /\ frame' = [frame EXCEPT !.pc = "push"]
                /\ UNCHANGED <<call, accepted>>
    /\ UNCHANGED <<squares, players, events, overflow_checks>>

\* self.events.push(action);
StepPush ==
    /\ frame.pc = "push"
    /\ events' = Append(events, frame.action)
    /\ frame' = [frame EXCEPT !.pc = "return"]
    /\ UNCHANGED <<squares, players, overflow_checks, stdout, call, accepted>>

\* Ok(())
StepReturn ==
    /\ frame.pc = "return"
    /\ Return(Ok)
    /\ UNCHANGED <<squares, players, events, overflow_checks, stdout>>

EnterApply == \E a \in ActionInputs : Enter(a)

NextSteps ==
    \/ RegisterPlayer
    \/ EnterApply
    \/ StepMatch
    \/ StepEnsure
    \/ StepPrintln
    \/ StepPush
    \/ StepReturn

SpecSteps == Init /\ [][NextSteps]_vars

\* ======================================================= the properties
\* p is a position of the player list ps.
ValidIndex(p, ps) == 0 <= p /\ p < Len(ps)

\* The PlayerIds an action carries.
RefPlayers(a) ==
    IF a.variant = "AuctionProperty"
    THEN {a.bids[i][1] : i \in 1..Len(a.bids)}
    ELSE IF a.variant = "TransactWithPlayer"
    THEN {a.player, a.transaction.ty.player}
    ELSE {a.player}

IsPrefix(s, t) == Len(s) <= Len(t) /\ SubSeq(t, 1, Len(s)) = s

\* Reading a decimal numeral back: the value of a digit character, of a run
\* of digits, and of an optionally signed numeral.
IsDigit(c) == \E d \in 0..9 : Digits[d + 1] = c
DigitValue(c) == CHOOSE d \in 0..9 : Digits[d + 1] = c
RECURSIVE ParseNat(_)
ParseNat(cs) ==
    IF Len(cs) = 1 THEN DigitValue(cs[1])
    ELSE 10 * ParseNat(SubSeq(cs, 1, Len(cs) - 1)) + DigitValue(cs[Len(cs)])
IsNumeral(cs) ==
    LET ds == IF Len(cs) > 0 /\ cs[1] = "-" THEN Tail(cs) ELSE cs
    IN  Len(ds) > 0 /\ \A i \in 1..Len(ds) : IsDigit(ds[i])
ParseInt(cs) == IF cs[1] = "-" THEN -ParseNat(Tail(cs)) ELSE ParseNat(cs)

\* r is the error "player <p> is not a valid player".
IsUnknownPlayer(r, p) ==
    /\ r.tag = "Err"
    /\ LET m == r.error.message
           a == Len(StrPlayer)
           z == Len(StrNotValid)
       IN  /\ Len(m) > a + z
           /\ SubSeq(m, 1, a) = <<"p", "l", "a", "y", "e", "r", " ">>
           /\ SubSeq(m, Len(m) - z + 1, Len(m)) = StrNotValid
           /\ IsNumeral(SubSeq(m, a + 1, Len(m) - z))
           /\ ParseInt(SubSeq(m, a + 1, Len(m) - z)) = p

\* r is the stubs' generic error, "foo".
IsGenericError(r) == r.tag = "Err" /\ r.error.message = <<"f", "o", "o">>

\* C1 (as claimed): an action that references a PlayerId that is no position
\* of the player list fails with the unknown-player error for one of its
\* ids and leaves players, squares and events as they were.
C1_UnknownPlayerRejected ==
    call.made =>
        \A p \in RefPlayers(call.action) :
            ~ValidIndex(p, call.before.players) =>
                /\ \E q \in RefPlayers(call.action) :
                       ~ValidIndex(q, call.before.players)
                       /\ IsUnknownPlayer(call.result, q)
                /\ state = call.before

\* C2 (as claimed): every action in the event log references a PlayerId p
\* with 0 <= p < number of players.
C2_LoggedPlayersExist ==
    \A i \in 1..Len(events) :
        \A p \in RefPlayers(events[i]) : ValidIndex(p, players)

\* C3: when apply returns Ok, the log is the log before the call with the
\* submitted action appended, and nothing else.
C3_OkAppendsAction ==
    (call.made /\ call.result = Ok) =>
        /\ Len(events) = Len(call.before.events) + 1
        /\ SubSeq(events, 1, Len(events) - 1) = call.before.events
        /\ events[Len(events)] = call.action
        /\ events[Len(events)].player = call.action.player
        /\ events[Len(events)].roll = call.action.roll

\* C3 witness: an Ok call that appended to a log that already held an event.
C3_Witness ==
    call.made /\ call.result = Ok /\ Len(call.before.events) >= 1

\* C4: when apply returns an error, players, squares and events are what
\* they were before the call.
C4_ErrLeavesStateUnchanged ==
    (call.made /\ call.result.tag = "Err") =>
        /\ players = call.before.players
        /\ squares = call.before.squares
        /\ events = call.before.events

\* C4 witness: a RollDice call that failed on a state with players and events.
C4_Witness ==
    /\ call.made /\ call.result.tag = "Err"
    /\ call.action.variant = "RollDice"
    /\ Len(players) >= 1 /\ Len(events) >= 1

\* C5: the event log is exactly the actions apply returned Ok for, in
\* submission order, and every step leaves the old log a prefix of the new.
C5_LogIsAcceptedSubsequence ==
    /\ [](events = accepted)
    /\ [][IsPrefix(events, events')]_vars

\* C5 witness: two accepted actions in the log, then a rejected one.
C5_Witness ==
    /\ Len(events) = 2 /\ events[1] # events[2]
    /\ call.made /\ call.result.tag = "Err"

\* C6 (as claimed): RollDice for a registered player (0 <= p < number of
\* players) returns Ok for every roll and appends the action to the log.
C6_RegisteredRollDiceOk ==
    (/\ call.made
     /\ call.action.variant = "RollDice"
     /\ ValidIndex(call.action.player, call.before.players)) =>
        /\ call.result = Ok
        /\ events = Append(call.before.events, call.action)

\* C7: RollDice(p, _) with p >= number of players returns the error "player p
\* is not a valid player" and leaves the event log as it was.
C7_UnknownRollDiceRejected ==
    (/\ call.made
     /\ call.action.variant = "RollDice"
     /\ call.action.player >= Len(call.before.players)) =>
        /\ IsUnknownPlayer(call.result, call.action.player)
        /\ events = call.before.events
        /\ (call.action.player = 0 =>
              call.result.error.message =
                  <<"p", "l", "a", "y", "e", "r", " ", "0", " ", "i", "s", " ",
                    "n", "o", "t", " ", "a", " ", "v", "a", "l", "i", "d", " ",
                    "p", "l", "a", "y", "e", "r">>)

\* C7 witness: a player list of one entry, a log of one event, and
\* RollDice for position 1 just rejected.
C7_Witness ==
    /\ call.made /\ call.action.variant = "RollDice"
    /\ Len(call.before.players) = 1 /\ call.action.player = 1
    /\ call.result.tag = "Err" /\ Len(events) = 1

\* C8 (as claimed): no call of apply ends in a panic.
C8_NeverPanics == ~Panicked

\* C10: every action other than RollDice gets the generic error, the state
\* is left as it was, and the log holds RollDice actions only.
C10_StubsRejected ==
    /\ (call.made /\ call.action.variant # "RollDice") =>
          /\ IsGenericError(call.result)
          /\ state = call.before
    /\ \A i \in 1..Len(events) : events[i].variant = "RollDice"

\* C10 witness: ReceiveSalary for a registered player, just rejected, on a
\* state whose log is not empty.
C10_Witness ==
    /\ call.made /\ call.action.variant = "ReceiveSalary"
    /\ ValidIndex(call.action.player, call.before.players)
    /\ call.result.tag = "Err" /\ Len(events) >= 1

\* C11: a RollDice that returns Ok leaves the player list (length, order and
\* every entry) and the squares as they were; only the event log differs.
C11_RollDiceChangesOnlyLog ==
    (/\ call.made
     /\ call.action.variant = "RollDice"
     /\ call.result = Ok) =>
        /\ Len(players) = Len(call.before.players)
        /\ \A i \in 1..Len(players) : players[i] = call.before.players[i]
        /\ squares = call.before.squares
        /\ events # call.before.events

\* C11 witness: a registered player at position 0 has just rolled.
C11_Witness ==
    /\ call.made /\ call.result = Ok
    /\ call.action.variant = "RollDice"
    /\ call.action.player = 0 /\ Len(players) >= 1

\* C13: in every reachable state the squares are the static board table, Go
\* followed by Mediterranean Ave.
C13_SquaresFixed ==
    /\ Len(squares) = 2
    /\ squares[1] = [square |-> "Go"]
    /\ squares[2].square = "Property"
    /\ squares[2].name = "Mediterranean Ave"
    /\ squares = SQUARES

\* C13 witness: a player is registered, a roll is logged and a stub action
\* has just been rejected.
C13_Witness ==
    /\ Len(players) >= 1 /\ Len(events) >= 1
    /\ call.made /\ call.action.variant # "RollDice"

\* main's call: state.apply(Action::RollDice(PlayerId(0), RollResult(1, 2)))
MainAction == RollDice(0, RollResult(1, 2))

\* C16: from init() with apply alone the player list stays empty, every
\* RollDice with a player id >= 0 is rejected and never logged, and main's
\* RollDice(PlayerId(0), RollResult(1, 2)) ends with the error result.
C16_NoPlayersEver ==
    /\ players = <<>>
    /\ \A i \in 1..Len(events) : events[i].player < 0
    /\ (/\ call.made
        /\ call.action.variant = "RollDice"
        /\ call.action.player >= 0) =>
           /\ call.result.tag = "Err"
           /\ IsUnknownPlayer(call.result, call.action.player)
           /\ events = call.before.events
    /\ (call.made /\ call.action = MainAction) =>
           call.result.error.message =
               <<"p", "l", "a", "y", "e", "r", " ", "0", " ", "i", "s", " ",
                 "n", "o", "t", " ", "a", " ", "v", "a", "l", "i", "d", " ",
                 "p", "l", "a", "y", "e", "r">>

\* C16 witness: main's call has just been made on the fresh state.
C16_Witness ==
    /\ call.made /\ call.action = MainAction
    /\ call.before = init
    /\ call.result.tag = "Err"

\* Replaying a log: apply its actions in order, stopping at the first call
\* that does not return Ok.
RECURSIVE ReplayFrom(_, _, _)
ReplayFrom(self, log, checks) ==
    IF log = <<>> THEN [self |-> self, ok |-> TRUE]
    ELSE LET r == apply(self, Head(log), checks)
         IN  IF r.result # Ok THEN [self |-> r.self, ok |-> FALSE]
             ELSE ReplayFrom(r.self, Tail(log), checks)

\* C14 (as claimed): replaying the event log of a reachable state on a state
\* with the same player list and an empty log makes every apply return Ok
\* and rebuilds the same log.
C14_ReplayRoundTrip ==
    LET fresh == [squares |-> squares, players |-> players, events |-> <<>>]
        r == ReplayFrom(fresh, events, overflow_checks)
    IN  r.ok /\ r.self.events = events

\* C15 (as claimed): RollDice(p, _) is accepted exactly when p is less than
\* the number of entries of the player list, whatever ids the entries carry.
C15_ValidityByPosition ==
    (call.made /\ call.action.variant = "RollDice") =>
        /\ (call.result = Ok) <=> (call.action.player < Len(call.before.players))
        /\ (call.result = Ok) <=> (events = Append(call.before.events, call.action))

\* The statement-by-statement apply returns what apply returns and leaves
\* the state apply leaves.
StepsAgreeWithApply ==
    call.made =>
        LET r == apply(call.before, call.action, overflow_checks)
        IN  call.result = r.result /\ state = r.self

\* C12: within one apply call nothing of GameState is written before the
\* player check has passed, the only write is the append to events, it comes
\* after the check and the println, and after it the call only returns.
C12_ValidateThenAppendLast ==
    /\ [](frame.pc # "none" =>
            /\ players = frame.before.players
            /\ squares = frame.before.squares
            /\ (frame.ensured # Ok => events = frame.before.events)
            /\ (events # frame.before.events =>
                   /\ frame.pc = "return"
                   /\ events = Append(frame.before.events, frame.action)))
    /\ [][frame.pc = "return" => UNCHANGED <<squares, players, events>>]_vars

\* C12 witness: a call in progress has passed the check and appended its
\* action to a log that already held an event.
C12_Witness ==
    /\ frame.pc = "return"
    /\ frame.ensured = Ok
    /\ Len(frame.before.events) >= 1
    /\ events = Append(frame.before.events, frame.action)

====
